---- MODULE Spec2Model ----
(***************************************************************************)
(* Operator bots of BESCLLC/PredictionOperatorBot.                         *)
(*                                                                         *)
(* The repository holds several scripts that share one design: a timer     *)
(* (setInterval) fires the async function checkAndExecute, which reads the *)
(* prediction contract and submits at most a few transactions.  Every      *)
(* `await` of a script is a point where another timer firing may run, so   *)
(* an invocation is modelled as a process whose steps are the code between *)
(* two awaits.  The scripts are told apart by the variable `variant`:      *)
(*                                                                         *)
(*   "recovery"    src/operator-bot.js, first script  (lines 1-208)        *)
(*   "cooldown"    src/operator-bot.js, second script (lines 210-435)      *)
(*   "safeDelay"   src/unnamed/part_000, first script (lines 1-125)        *)
(*   "wideScan"    src/unnamed/part_001, second script (lines 119-244)     *)
(*   "noMark"      src/unnamed/part_004, second script (lines 54-276)      *)
(*   "genesisFlag" src/unnamed/part_003, first script (lines 1-114)        *)
(*   "lockExecute" src/unnamed/part_003, second script (lines 116-247)     *)
(*   "closeAnchored" src/unnamed/part_002 (lines 1-142)                    *)
(*   "guardless"   src/unnamed/part_004, first script (lines 1-52)         *)
(* and the price feeders:                                                  *)
(*   "feederLoop"  src/oracle-bot.js, first script (lines 1-95)            *)
(*   "feederTimer" src/oracle-bot.js, second script (lines 97-197)         *)
(*   "feederSimple" src/unnamed/part_006 (lines 1-68)                      *)
(*                                                                         *)
(* The prediction contract is not part of the repository.  Its state is    *)
(* the part the scripts read (genesis flags, paused, currentEpoch, rounds) *)
(* and it changes when a transaction of the bot is confirmed or when the   *)
(* price feeder marks a round (oracleCalled).                              *)
(***************************************************************************)
EXTENDS Integers, Sequences, FiniteSets

\* ---------------------------------------------------------------- bounds

\* Invocations of checkAndExecute that may be pending at the same time.
MaxTicks == 2
\* Largest epoch the contract reaches; a transaction that would start a
\* later round is rejected.
MaxEpoch == 3
\* Wall-clock seconds run from 1 to MaxTime.
MaxTime == 5
\* intervalSeconds of the contract: a round locks this long after it starts.
IntervalSeconds == 1
\* BUFFER_SECONDS and SAFE_DELAY are read from the environment by every
\* script (defaults 30 and 2); the model runs them scaled down.
BUFFER_SECONDS == 2
SAFE_DELAY == 1
\* The cooldown of the second script of operator-bot.js (30 in the source),
\* scaled down like the other durations.
Cooldown == 2

\* part_002: the floor of the gas price and the bump after a rejection
\* `replacement underpriced`, in gwei.
MIN_GAS_PRICE == 1000
GasBump == 50

\* oracle-bot.js (second script), part_006: fetchPrice's maxRetries.
MaxRetries == 5

\* The wallet's transaction counts stay below MaxNonce; the price source
\* gives MaxSrc prices.
MaxNonce == 12
MaxSrc == 2

Ticks == 1..MaxTicks
Epochs == 1..MaxEpoch

Variants == {"recovery", "cooldown", "safeDelay", "wideScan", "noMark", "genesisFlag",
             "lockExecute", "closeAnchored", "guardless",
             "feederLoop", "feederTimer", "feederSimple"}

VARIABLES
  variant,              \* which script runs
  net,                  \* outside the prediction contract: process.env, the
                        \* contract's bufferSeconds, the wallet's transaction
                        \* counts, the oracle and the price source
  now,                  \* Math.floor(Date.now() / 1000)
  genesisStartOnce,     \* contract: prediction.genesisStartOnce()
  genesisLockOnce,      \* contract: prediction.genesisLockOnce()
  paused,               \* contract: prediction.paused()
  currentEpoch,         \* contract: prediction.currentEpoch()
  rounds,               \* contract: prediction.rounds(epoch)
  txPending,            \* let txPending
  lastHandledEpoch,     \* let lastHandledEpoch (lastExecutedEpoch in part_000)
  lastAttemptedEpochs,  \* const lastAttemptedEpochs = new Map(); 0: no entry
  genesisComplete,      \* let genesisComplete (part_003)
  pc,                   \* per invocation: the await it is suspended at
  loc,                  \* per invocation: its local variables
  hist                  \* history: what has happened so far (read by no step)

chain == <<genesisStartOnce, genesisLockOnce, paused, currentEpoch, rounds>>
globals == <<txPending, lastHandledEpoch, lastAttemptedEpochs, genesisComplete>>
vars == <<variant, net, now, chain, globals, pc, loc, hist>>

\* ------------------------------------------------------- variant features

\* MaxAttempts with the loop bound off by one (attempt <= 4, attempt <= 6).
MaxAttempts_oneMore(v) ==
  CASE v = "recovery" -> 4
    [] v = "cooldown" -> 6
    [] v = "noMark" -> 6
    [] v = "closeAnchored" -> 6
    [] v = "lockExecute" -> 4
    [] OTHER -> 2

\* sendTx: the number of attempts of its retry loop (1: no loop).
MaxAttempts(v) ==
  CASE v = "recovery" -> 3
    [] v = "cooldown" -> 5
    [] v = "noMark" -> 5
    [] v = "closeAnchored" -> 5
    [] v = "lockExecute" -> 3
    [] OTHER -> 1

\* The script is a price feeder.
IsFeeder(v) == v \in {"feederLoop", "feederTimer", "feederSimple"}

\* sendTx retries only after the rejection `replacement underpriced`, with a
\* higher gas price (part_002).
FeeBumps(v) == v = "closeAnchored"

\* The script has the variable txPending and the guard on it.
HasGuard(v) == v # "guardless"

\* The script has bootstrapGenesis.
Bootstraps(v) == v # "guardless"

\* The script keeps lastHandledEpoch and tests epochs against it.
TracksHandled(v) == v \notin {"genesisFlag", "lockExecute", "closeAnchored", "guardless"}

\* bootstrapGenesis ends a successful step with `await sleep(1000)`.
SleepsAfterGenesis(v) == v \in {"recovery", "cooldown", "noMark"}

\* Before genesisLockRound the script reads the current round and waits for
\* its lock time.
GenesisLockWaits(v) == v \in {"cooldown", "noMark"}

\* The offset added to lockTimestamp for the start of the execution window.
SafeDelay(v) == IF v \in {"safeDelay", "genesisFlag"} THEN SAFE_DELAY ELSE 0

\* The execution window requires round.oracleCalled.
NeedsOracleCalled(v) == v \in {"recovery", "safeDelay", "wideScan", "noMark"}

\* Every variant marks a missed epoch as handled.
MarksMissed_always(v) == TRUE

\* tryExecute records an epoch whose window has passed as handled.
MarksMissed(v) == v \in {"recovery", "safeDelay", "wideScan"}

\* tryExecute catches a failed executeRound itself.
InnerCatch(v) == v \in {"recovery", "cooldown", "wideScan", "noMark"}

\* The scan loop of checkAndExecute stops after a successful executeRound.
BreaksOnExecuted(v) == v \in {"recovery", "cooldown", "noMark", "genesisFlag"}

\* The epochs a tick evaluates, in order, given the currentEpoch it read.
ScanList(v, cur) ==
  CASE v = "recovery" -> <<cur, cur + 1, cur - 1, cur - 2, cur - 3, cur - 4, cur - 5>>
    [] v = "cooldown" -> <<cur, cur + 1, cur - 1>>
    [] v = "noMark" -> <<cur, cur + 1, cur - 1, cur - 2, cur - 3>>
    [] v = "safeDelay" -> <<cur - 2, cur - 1, cur>>
    [] v = "wideScan" -> <<cur - 5, cur - 4, cur - 3, cur - 2, cur - 1, cur, cur + 1>>
    [] OTHER -> <<cur>>

\* ------------------------------------------------------------- contract

NoRound == [lockTimestamp |-> 0, closeTimestamp |-> 0, oracleCalled |-> FALSE]

\* prediction.rounds(epoch): a round that never started reads as zeros.
Round(e) == IF e \in Epochs THEN rounds[e] ELSE NoRound

\* The contract starts round e at the present time.
StartRound(e) ==
  rounds' = [rounds EXCEPT ![e] = [lockTimestamp |-> now + IntervalSeconds,
                                    closeTimestamp |-> now + 2 * IntervalSeconds,
                                    oracleCalled |-> FALSE]]

\* Whether the contract accepts a transaction of this kind now.
Accepts(kind) ==
  CASE kind = "genesisStartRound" ->
         ~paused /\ ~genesisStartOnce /\ currentEpoch < MaxEpoch
    [] kind = "genesisLockRound" ->
         ~paused /\ genesisStartOnce /\ ~genesisLockOnce /\ currentEpoch < MaxEpoch
    [] kind = "executeRound" ->
         ~paused /\ genesisStartOnce /\ genesisLockOnce /\ currentEpoch < MaxEpoch
    [] kind = "lockRound" ->
         ~paused /\ genesisStartOnce /\ genesisLockOnce
    [] kind = "pause" -> ~paused
    [] kind = "unpause" -> paused
    [] OTHER -> FALSE

\* What a confirmed transaction of this kind does to the contract.
Confirmed(kind) ==
  CASE kind = "genesisStartRound" ->
         /\ genesisStartOnce' = TRUE
         /\ currentEpoch' = currentEpoch + 1
         /\ StartRound(currentEpoch + 1)
         /\ UNCHANGED <<genesisLockOnce, paused>>
    [] kind = "genesisLockRound" ->
         /\ genesisLockOnce' = TRUE
         /\ currentEpoch' = currentEpoch + 1
         /\ StartRound(currentEpoch + 1)
         /\ UNCHANGED <<genesisStartOnce, paused>>
    [] kind = "executeRound" ->
         /\ currentEpoch' = currentEpoch + 1
         /\ StartRound(currentEpoch + 1)
         /\ UNCHANGED <<genesisStartOnce, genesisLockOnce, paused>>
    [] kind = "pause" ->
         /\ paused' = TRUE
         /\ UNCHANGED <<genesisStartOnce, genesisLockOnce, currentEpoch, rounds>>
    [] kind = "unpause" ->
         /\ paused' = FALSE
         /\ genesisStartOnce' = FALSE
         /\ genesisLockOnce' = FALSE
         /\ UNCHANGED <<currentEpoch, rounds>>
    [] OTHER -> UNCHANGED chain

\* ------------------------------------------------------------ outside

\* The names process.env is read for; KEY is the signing key (OPERATOR_KEY
\* or PRIVATE_KEY).
Keys == {"RPC_URL", "PREDICTION_ADDRESS", "ORACLE_ADDRESS", "KEY"}

\* Required without the signing key.
Required_noKey(v) == {"RPC_URL", "PREDICTION_ADDRESS"}

\* The names the test at the top of the script wants set.
Required(v) ==
  CASE v \in {"cooldown", "noMark", "feederLoop", "feederTimer"} -> Keys
    [] v = "feederSimple" -> Keys \ {"PREDICTION_ADDRESS"}
    [] OTHER -> Keys \ {"ORACLE_ADDRESS"}

\* Everything configured, the contract's bufferSeconds equal to the local
\* BUFFER_SECONDS, a wallet that has never sent a transaction, an oracle
\* without a price, the price source at its first price.
NoNet == [config |-> Keys, bufferSeconds |-> BUFFER_SECONDS,
          pending |-> 0, confirmed |-> 0, roundId |-> 0, srcId |-> 1]

\* The script got past `if (!RPC_URL || ...) throw new Error(...)`: only then
\* are its first call and its timer reached.
Loaded == Required(variant) \subseteq net.config

\* ------------------------------------------------------------ invocation

\* The locals of an invocation: cur (currentEpoch as read), i and e (position
\* in the scan list and its epoch), kind and att (the transaction sendTx is
\* sending and its attempt), so (genesisStartOnce as read), rec (inside
\* recover(), or inside recoverStuckRounds), tnow (`now` of the cooldown
\* variant, taken once per function), gas (gasPrice of the sendTx of
\* part_002); of a feeder invocation: pend and conf (the transaction counts
\* as read), nonce (of the transaction sent), pid (the price fetched,
\* named by the round identifier of its source), status and delay (the
\* HTTP status of the last request and the sleep after it).  History of the invocation: noop (it
\* returned at its first line), sawDone (it has read both genesis flags as
\* true), handled (it has written lastHandledEpoch; kept up to the stall
\* check), marked (the largest epoch its scan has recorded as missed).
NoLoc == [cur |-> 0, i |-> 0, e |-> 0, kind |-> "none", att |-> 0,
          so |-> FALSE, rec |-> FALSE, tnow |-> 0, noop |-> FALSE,
          sawDone |-> FALSE, handled |-> FALSE, marked |-> 0, gas |-> 0,
          pend |-> 0, conf |-> 0, nonce |-> 0, pid |-> 0, delay |-> 0,
          status |-> 0]

NoHist == [missed |-> {}, startConfirmed |-> FALSE]

Goto(t, p, l) ==
  /\ pc' = [pc EXCEPT ![t] = p]
  /\ loc' = [loc EXCEPT ![t] = l]

\* An invocation is inside a sendTx call.
InSendTx(t) == pc[t] = "send"

Min(S) == CHOOSE x \in S : \A y \in S : x <= y

\* ------------------------------------------------------- window policy

\* The buffer taken from the contract.
WindowBuffer_contract == net.bufferSeconds

\* The buffer the window tests use: the script's own BUFFER_SECONDS.  The
\* value of prediction.bufferSeconds() is compared with it and logged.
WindowBuffer == BUFFER_SECONDS

\* The test of part_002 (line 123) and of part_004, first script (line 30),
\* on closeTimestamp: no upper end.
Decision_close(v, n, r) ==
  IF /\ r.lockTimestamp > 0
     /\ IF v = "closeAnchored" THEN n >= r.closeTimestamp + WindowBuffer
                               ELSE n > r.closeTimestamp
    THEN "Execute"
    ELSE "Skip"

\* Decision with the window opening one second late (a strict comparison).
Decision_lateStart(v, n, r) ==
  IF /\ r.lockTimestamp > 0
     /\ (NeedsOracleCalled(v) => r.oracleCalled)
     /\ n > r.lockTimestamp + SafeDelay(v)
     /\ n <= r.lockTimestamp + BUFFER_SECONDS
    THEN "Execute"
  ELSE IF r.lockTimestamp > 0 /\ n > r.lockTimestamp + BUFFER_SECONDS
    THEN "MarkMissed"
  ELSE "Skip"

\* Decision with the window closing one second early (a strict comparison).
Decision_earlyEnd(v, n, r) ==
  IF /\ r.lockTimestamp > 0
     /\ (NeedsOracleCalled(v) => r.oracleCalled)
     /\ n >= r.lockTimestamp + SafeDelay(v)
     /\ n < r.lockTimestamp + BUFFER_SECONDS
    THEN "Execute"
  ELSE IF r.lockTimestamp > 0 /\ n > r.lockTimestamp + BUFFER_SECONDS
    THEN "MarkMissed"
  ELSE "Skip"

\* tryExecute's two tests on a round it has read, at time n: the execution
\* window (both ends inclusive), then the missed window.
Decision(v, n, r) ==
  IF v \in {"closeAnchored", "guardless"} THEN Decision_close(v, n, r)
  ELSE IF /\ r.lockTimestamp > 0
          /\ (NeedsOracleCalled(v) => r.oracleCalled)
          /\ n >= r.lockTimestamp + SafeDelay(v)
          /\ n <= r.lockTimestamp + WindowBuffer
    THEN "Execute"
  ELSE IF r.lockTimestamp > 0 /\ n > r.lockTimestamp + WindowBuffer
    THEN "MarkMissed"
  ELSE "Skip"

\* ------------------------------------------------------------ scan loop

\* The loop calls tryExecute(e) and tryExecute goes on past its first line.
Eligible(v, e, lh) ==
  IF ~TracksHandled(v) THEN TRUE ELSE e > 0 /\ e > lh

\* CooldownOver with an attempted epoch never tried again.
CooldownOver_never(v, e) ==
  v = "cooldown" /\ e \in Epochs => lastAttemptedEpochs[e] = 0

\* tryExecute of the cooldown variant: no attempt for e in the last Cooldown
\* seconds (an epoch without an entry reads as attempted at time 0, which is
\* always long ago).
CooldownOver(v, e) ==
  v = "cooldown" /\ e \in Epochs /\ lastAttemptedEpochs[e] > 0
    => now - lastAttemptedEpochs[e] >= Cooldown

\* The first position of the scan list, from `from` on, whose epoch is
\* evaluated (its round is read); 0 when the loop ends.
NextIdx(v, cur, from, lh) ==
  LET s == ScanList(v, cur)
      c == {j \in from..Len(s) : Eligible(v, s[j], lh) /\ CooldownOver(v, s[j])}
  IN  IF c = {} THEN 0 ELSE Min(c)

\* After the loop: the recovery variant checks for a stalled epoch.
Stalled(v, cur, lh) == v = "recovery" /\ cur <= lh /\ cur > 0

AfterScan(l, lh) ==
  IF Stalled(variant, l.cur, lh)
    THEN [p |-> "paused", l |-> [l EXCEPT !.i = 0, !.e = 0, !.kind = "none", !.att = 0,
                                          !.marked = 0]]
    ELSE [p |-> "idle", l |-> NoLoc]

\* The loop goes on at position `from` with lastHandledEpoch = lh.
ScanFrom(l, from, lh) ==
  LET j == NextIdx(variant, l.cur, from, lh)
  IN  IF j = 0
        THEN AfterScan(l, lh)
        ELSE [p |-> "round",
              l |-> [l EXCEPT !.i = j, !.e = ScanList(variant, l.cur)[j],
                              !.kind = "none", !.att = 0,
                              !.tnow = IF variant = "cooldown" THEN now ELSE 0]]

\* The sweep without `if (epoch <= lastHandledEpoch) continue`.
SweepFrom_noSkip(l, from, lh) ==
  LET c == from..l.cur
  IN  IF c = {}
        THEN ScanFrom([l EXCEPT !.rec = FALSE], 1, lh)
        ELSE [p |-> "rsRound",
              l |-> [l EXCEPT !.e = Min(c), !.kind = "none", !.att = 0]]

\* recoverStuckRounds of the cooldown variant goes on at epoch `from`: the
\* next epoch above lastHandledEpoch is read, or the sweep returns false and
\* the scan loop starts.
SweepFrom(l, from, lh) ==
  LET c == {e \in from..l.cur : e > lh}
  IN  IF c = {}
        THEN ScanFrom([l EXCEPT !.rec = FALSE], 1, lh)
        ELSE [p |-> "rsRound",
              l |-> [l EXCEPT !.e = Min(c), !.kind = "none", !.att = 0]]

\* ------------------------------------------------------------ exceptions

\* The catch of checkAndExecute without `txPending = false`.
TickCatch_keepsPending(t) ==
  /\ Goto(t, "idle", NoLoc)
  /\ UNCHANGED globals

\* catch of checkAndExecute: log, txPending = false, the invocation ends.
TickCatch(t) ==
  /\ txPending' = FALSE
  /\ Goto(t, "idle", NoLoc)
  /\ UNCHANGED <<lastHandledEpoch, lastAttemptedEpochs, genesisComplete>>

\* catch of recover: sleep(5000), then recover() again.
RecoverCatch(t) ==
  /\ Goto(t, "recSleep", [loc[t] EXCEPT !.kind = "none", !.att = 0])
  /\ UNCHANGED globals

\* An await of a contract read rejects.
ReadThrows(t) ==
  IF variant = "recovery" /\ loc[t].rec /\ pc[t] # "recEpoch"
    THEN RecoverCatch(t) ELSE TickCatch(t)

\* ------------------------------------------------------------- sendTx

IsGenesis(kind) == kind \in {"genesisStartRound", "genesisLockRound"}

\* A call of sendTx starts.
BeginSend(l, kind) ==
  [p |-> IF FeeBumps(variant) THEN "fee" ELSE "send",
   l |-> [l EXCEPT !.kind = kind, !.att = 1,
                   !.gas = IF FeeBumps(variant) THEN MIN_GAS_PRICE ELSE 0]]

\* sendTx returned the receipt to its caller.
Returned(t) ==
  LET l == loc[t]
      k == l.kind
  IN  CASE IsGenesis(k) ->
             /\ Goto(t, IF SleepsAfterGenesis(variant) THEN "sleep" ELSE "idle",
                     IF SleepsAfterGenesis(variant)
                       THEN [l EXCEPT !.kind = "none", !.att = 0] ELSE NoLoc)
             /\ UNCHANGED globals
        [] k = "pause" ->
             /\ Goto(t, "send", [l EXCEPT !.kind = "unpause", !.att = 1])
             /\ UNCHANGED globals
        [] k = "unpause" ->
             /\ Goto(t, "genStart", [l EXCEPT !.kind = "none", !.att = 0])
             /\ UNCHANGED globals
        [] OTHER ->
             LET lh == IF ~TracksHandled(variant) THEN lastHandledEpoch ELSE l.e
                 tg == IF l.rec THEN [p |-> "idle", l |-> NoLoc]
                       ELSE IF BreaksOnExecuted(variant)
                         THEN AfterScan([l EXCEPT !.handled = TRUE], lh)
                         ELSE ScanFrom([l EXCEPT !.handled = TRUE], l.i + 1, lh)
             IN  /\ lastHandledEpoch' = lh
                 /\ txPending' = FALSE
                 /\ Goto(t, tg.p, tg.l)
                 /\ UNCHANGED <<lastAttemptedEpochs, genesisComplete>>

\* sendTx threw to its caller.
Threw(t) ==
  LET l == loc[t]
  IN  IF variant = "recovery" /\ l.rec THEN RecoverCatch(t)
      ELSE IF l.kind = "executeRound" /\ InnerCatch(variant)
        THEN LET tg == IF l.rec THEN SweepFrom(l, l.e + 1, lastHandledEpoch)
                       ELSE ScanFrom(l, l.i + 1, lastHandledEpoch)
             IN  /\ txPending' = FALSE
                 /\ Goto(t, tg.p, tg.l)
                 /\ UNCHANGED <<lastHandledEpoch, lastAttemptedEpochs, genesisComplete>>
      ELSE TickCatch(t)

\* An attempt of sendTx failed: the next attempt, or the error is thrown.
Failed(t) ==
  IF loc[t].att < MaxAttempts(variant)
    THEN /\ Goto(t, "send", [loc[t] EXCEPT !.att = @ + 1])
         /\ UNCHANGED globals
    ELSE Threw(t)

\* One attempt of sendTx, from the reads before `await fn(...)` to
\* `await tx.wait()`: the confirmed receipt, or the attempt fails.
sendTx(t) ==
  /\ pc[t] = "send"
  /\ ~FeeBumps(variant)
  /\ \/ /\ Accepts(loc[t].kind)
        /\ Confirmed(loc[t].kind)
        /\ Returned(t)
        /\ hist' = IF loc[t].kind = "genesisStartRound"
                     THEN [hist EXCEPT !.startConfirmed = TRUE] ELSE hist
     \/ /\ UNCHANGED <<chain, hist>>
        /\ Failed(t)
  /\ UNCHANGED <<variant, net, now>>

\* ---------------------------------------------- sendTx of part_002

\* What provider.getFeeData() may report as gasPrice, in gwei; 0 stands for
\* a report without gasPrice.
FeeData == {0, 900, 1075}

\* gasPrice after the report of getFeeData (lines 59-62): the suggestion
\* when it is higher, and never below the floor.
GasPrice(gas, fee) ==
  LET g == IF fee # 0 /\ fee > gas THEN fee ELSE gas
  IN  IF g < MIN_GAS_PRICE THEN MIN_GAS_PRICE ELSE g

\* The bump without effect.
Bumped_same(gas) == gas

\* gasPrice after `replacement underpriced` (line 86).
Bumped(gas) == gas + GasBump

\* `await provider.getFeeData()` at the top of an attempt; its rejection is
\* not `replacement underpriced`, so it is rethrown.
sendTx_fee(t) ==
  /\ pc[t] = "fee"
  /\ \/ \E fee \in FeeData :
          /\ Goto(t, "send", [loc[t] EXCEPT !.gas = GasPrice(@, fee)])
          /\ UNCHANGED globals
     \/ Threw(t)
  /\ UNCHANGED <<variant, net, now, chain, hist>>

\* The rest of an attempt, `await fn()(overrides)` and `await tx.wait()`:
\* the confirmed receipt, the rejection `replacement underpriced` (bump,
\* attempt++, and the loop goes on while attempt < 5), or another error.
sendTx_bump(t) ==
  /\ pc[t] = "send"
  /\ FeeBumps(variant)
  /\ \/ /\ Accepts(loc[t].kind)
        /\ Confirmed(loc[t].kind)
        /\ Returned(t)
        /\ hist' = IF loc[t].kind = "genesisStartRound"
                     THEN [hist EXCEPT !.startConfirmed = TRUE] ELSE hist
     \/ /\ UNCHANGED <<chain, hist>>
        /\ IF loc[t].att < MaxAttempts(variant)
             THEN /\ Goto(t, "fee", [loc[t] EXCEPT !.att = @ + 1, !.gas = Bumped(@)])
                  /\ UNCHANGED globals
             ELSE Threw(t)
     \/ /\ UNCHANGED <<chain, hist>>
        /\ Threw(t)
  /\ UNCHANGED <<variant, net, now>>

\* ------------------------------------------------------ checkAndExecute

\* The first line of checkAndExecute: `if (txPending) return;`.
\* The guard never taken.
Reentrant_never == FALSE

Reentrant == txPending

\* The first await of an invocation that got past the guard.
FirstAwait ==
  IF variant = "genesisFlag" /\ genesisComplete THEN "epoch"
  ELSE IF ~Bootstraps(variant) THEN "epoch"
  ELSE "genStart"

\* The timer fires (or the script's own first call): checkAndExecute up to
\* its first await.  The invocations are interchangeable, so the firing
\* takes the first one that is not pending.
checkAndExecute(t) ==
  /\ Loaded
  /\ ~IsFeeder(variant)
  /\ pc[t] = "idle"
  /\ \A u \in 1..(t - 1) : pc[u] # "idle"
  /\ IF Reentrant
       THEN Goto(t, "idle", [NoLoc EXCEPT !.noop = TRUE])
       ELSE Goto(t, FirstAwait, NoLoc)
  /\ UNCHANGED <<variant, net, now, chain, globals, hist>>

\* ------------------------------------------------------ bootstrapGenesis

\* `await prediction.genesisStartOnce()`.  In the scripts that first read
\* prediction.bufferSeconds(), whose value is only compared and logged, that
\* await is taken together with this one.
bootstrapGenesis_startOnce(t) ==
  /\ pc[t] = "genStart"
  /\ \/ /\ Goto(t, "genLock", [loc[t] EXCEPT !.so = genesisStartOnce])
        /\ UNCHANGED globals
     \/ ReadThrows(t)
  /\ UNCHANGED <<variant, net, now, chain, hist>>

\* GenesisStep looking at genesisLockOnce first.
GenesisStep_lockFirst(startOnce, lockOnce) ==
  IF ~lockOnce THEN "genesisLockRound"
  ELSE IF ~startOnce THEN "genesisStartRound"
  ELSE "none"

\* GenesisStep without the test of genesisLockOnce.
GenesisStep_lockAgain(startOnce, lockOnce) ==
  IF ~startOnce THEN "genesisStartRound" ELSE "genesisLockRound"

\* What bootstrapGenesis does with the two flags it read.
GenesisStep(startOnce, lockOnce) ==
  IF ~startOnce THEN "genesisStartRound"
  ELSE IF ~lockOnce THEN "genesisLockRound"
  ELSE "none"

\* bootstrapGenesis returned false (in part_003: genesisComplete = true and
\* the tick returns).
GenesisDone(t) ==
  IF variant = "genesisFlag"
    THEN /\ genesisComplete' = TRUE
         /\ Goto(t, "idle", NoLoc)
         /\ UNCHANGED <<txPending, lastHandledEpoch, lastAttemptedEpochs>>
    ELSE /\ Goto(t, IF loc[t].rec THEN "idle" ELSE "epoch",
                 IF loc[t].rec THEN NoLoc ELSE [loc[t] EXCEPT !.sawDone = TRUE])
         /\ UNCHANGED globals

\* `await prediction.genesisLockOnce()` and the branch on the two flags.
bootstrapGenesis_lockOnce(t) ==
  /\ pc[t] = "genLock"
  /\ \/ LET step == GenesisStep(loc[t].so, genesisLockOnce)
            tg == BeginSend(loc[t], step)
        IN  CASE step = "none" -> GenesisDone(t)
              [] step = "genesisLockRound" /\ GenesisLockWaits(variant) ->
                   /\ Goto(t, "genEpoch", loc[t])
                   /\ UNCHANGED globals
              [] OTHER ->
                   /\ Goto(t, tg.p, tg.l)
                   /\ UNCHANGED globals
     \/ ReadThrows(t)
  /\ UNCHANGED <<variant, net, now, chain, hist>>

\* `await prediction.currentEpoch()` before genesisLockRound.
bootstrapGenesis_epoch(t) ==
  /\ pc[t] = "genEpoch"
  /\ \/ /\ Goto(t, "genRound", [loc[t] EXCEPT !.cur = currentEpoch])
        /\ UNCHANGED globals
     \/ ReadThrows(t)
  /\ UNCHANGED <<variant, net, now, chain, hist>>

\* The genesis lock window without an end.
GenesisLockOpen_noEnd(v, n, lockTime) == n >= lockTime

\* The genesis lock window: wait before lockTimestamp; the cooldown variant
\* also gives up after lockTimestamp + BUFFER_SECONDS.
GenesisLockOpen(v, n, lockTime) ==
  /\ n >= lockTime
  /\ (v = "cooldown" => n <= lockTime + WindowBuffer)

\* `await prediction.rounds(currentEpoch)` before genesisLockRound.
bootstrapGenesis_round(t) ==
  /\ pc[t] = "genRound"
  /\ \/ LET tg == BeginSend(loc[t], "genesisLockRound")
        IN  /\ IF GenesisLockOpen(variant, now, Round(loc[t].cur).lockTimestamp)
                 THEN Goto(t, tg.p, tg.l)
                 ELSE Goto(t, "epoch", loc[t])
            /\ UNCHANGED globals
     \/ ReadThrows(t)
  /\ UNCHANGED <<variant, net, now, chain, hist>>

\* `await sleep(1000); return true;` after a genesis transaction.
bootstrapGenesis_sleep(t) ==
  /\ pc[t] = "sleep"
  /\ Goto(t, "idle", NoLoc)
  /\ UNCHANGED <<variant, net, now, chain, globals, hist>>

\* ------------------------------------------------------------ scanning

\* `await prediction.currentEpoch()`, then the loop up to its first await
\* (in the cooldown variant: recoverStuckRounds up to its first await).
readCurrentEpoch(t) ==
  /\ pc[t] = "epoch"
  /\ \/ LET l == [loc[t] EXCEPT !.cur = currentEpoch]
            tg == IF variant = "cooldown"
                    THEN SweepFrom([l EXCEPT !.rec = TRUE, !.tnow = now],
                                   IF l.cur - 5 > 1 THEN l.cur - 5 ELSE 1,
                                   lastHandledEpoch)
                    ELSE ScanFrom(l, 1, lastHandledEpoch)
        IN  /\ Goto(t, tg.p, tg.l)
            /\ UNCHANGED globals
     \/ ReadThrows(t)
  /\ UNCHANGED <<variant, net, now, chain, hist>>

\* tryExecute(e) from `await prediction.rounds(epoch)` to its next await or
\* its return, and the loop up to its next await.
tryExecute(t) ==
  /\ pc[t] = "round"
  /\ variant \notin {"cooldown", "lockExecute"}
  /\ \/ LET l == loc[t]
            d == Decision(variant, now, Round(l.e))
            lh == IF d = "MarkMissed" /\ MarksMissed(variant)
                    THEN l.e ELSE lastHandledEpoch
            tg == IF d = "Execute"
                    THEN BeginSend(l, "executeRound")
                    ELSE ScanFrom([l EXCEPT !.handled =
                                              @ \/ (d = "MarkMissed" /\ MarksMissed(variant)),
                                            !.marked =
                                              IF d = "MarkMissed" /\ MarksMissed(variant) /\ l.e > @
                                                THEN l.e ELSE @],
                                  l.i + 1, lh)
        IN  /\ txPending' = IF d = "Execute" /\ HasGuard(variant) THEN TRUE ELSE txPending
            /\ lastHandledEpoch' = lh
            /\ Goto(t, tg.p, tg.l)
            /\ hist' = IF d = "MarkMissed"
                         THEN [hist EXCEPT !.missed = @ \cup {l.e}] ELSE hist
            /\ UNCHANGED <<lastAttemptedEpochs, genesisComplete>>
     \/ ReadThrows(t) /\ UNCHANGED hist
  /\ UNCHANGED <<variant, net, now, chain>>

\* ------------------------------------------------- lock/execute variant

\* WindowDecision with the execute window tested first.
WindowDecision_executeFirst(n, r) ==
  IF /\ r.closeTimestamp > 0
     /\ n >= r.closeTimestamp + SAFE_DELAY
     /\ n <= r.closeTimestamp + BUFFER_SECONDS
    THEN "Execute"
  ELSE IF /\ r.lockTimestamp > 0
          /\ n >= r.lockTimestamp + SAFE_DELAY
          /\ n <= r.lockTimestamp + BUFFER_SECONDS
    THEN "Lock"
  ELSE "Skip"

\* The two tests of checkAndExecute of the lock/execute variant on the
\* current round at time n: the lock window, then the execute window.
WindowDecision(n, r) ==
  IF /\ r.lockTimestamp > 0
     /\ n >= r.lockTimestamp + SAFE_DELAY
     /\ n <= r.lockTimestamp + BUFFER_SECONDS
    THEN "Lock"
  ELSE IF /\ r.closeTimestamp > 0
          /\ n >= r.closeTimestamp + SAFE_DELAY
          /\ n <= r.closeTimestamp + BUFFER_SECONDS
    THEN "Execute"
  ELSE "Skip"

\* checkAndExecute of the lock/execute variant from
\* `await prediction.rounds(epoch)` to its next await or its return.
lockOrExecute(t) ==
  /\ pc[t] = "round"
  /\ variant = "lockExecute"
  /\ \/ LET d == WindowDecision(now, Round(loc[t].e))
            tg == CASE d = "Lock" -> BeginSend(loc[t], "lockRound")
                    [] d = "Execute" -> BeginSend(loc[t], "executeRound")
                    [] OTHER -> [p |-> "idle", l |-> NoLoc]
        IN  /\ txPending' = IF d = "Skip" THEN txPending ELSE TRUE
            /\ Goto(t, tg.p, tg.l)
            /\ UNCHANGED <<lastHandledEpoch, lastAttemptedEpochs, genesisComplete>>
     \/ ReadThrows(t)
  /\ UNCHANGED <<variant, net, now, chain, hist>>

\* ---------------------------------------------------- cooldown variant

\* The epochs whose round tryExecute(e) reads from the contract: the epoch
\* itself and, in the cooldown variant for e >= 2, the epoch two before it.
RoundsRead(v, e) == IF v = "cooldown" /\ e >= 2 THEN {e, e - 2} ELSE {e}

\* CanExecute without the test `closeTimestamp === 0`.
CanExecute_unstarted(e, n) ==
  e >= 2 => ~(n < Round(e - 2).closeTimestamp)

\* tryExecute of the cooldown variant, on the rounds it read and the time n
\* it took at its start: round epoch - 2 must have ended, and the window.
CanExecute(e, n) ==
  e >= 2 => ~(Round(e - 2).closeTimestamp = 0 \/ n < Round(e - 2).closeTimestamp)

InWindow(n, ref) == ref > 0 /\ n >= ref /\ n <= ref + WindowBuffer

\* tryExecute(e): `await prediction.rounds(epoch)` and, for epoch >= 2,
\* `await prediction.rounds(epoch - 2)`, then the window test.
tryExecute_rounds(t) ==
  /\ pc[t] = "round"
  /\ variant = "cooldown"
  /\ \/ LET l == loc[t]
            tg == IF InWindow(l.tnow, Round(l.e).lockTimestamp) /\ CanExecute(l.e, l.tnow)
                    THEN [p |-> "oracle", l |-> l]
                    ELSE ScanFrom(l, l.i + 1, lastHandledEpoch)
        IN  /\ Goto(t, tg.p, tg.l)
            /\ UNCHANGED globals
     \/ ReadThrows(t)
  /\ UNCHANGED <<variant, net, now, chain, hist>>

\* The epoch a submission is made for is written to the cooldown map.
Attempted(e, n) == [lastAttemptedEpochs EXCEPT ![e] = n]

\* tryExecute(e): `await oracle.latestRoundData()` inside the try block, then
\* txPending = true, the cooldown entry and sendTx.
tryExecute_oracle(t) ==
  /\ pc[t] = "oracle"
  /\ \/ LET tg == BeginSend(loc[t], "executeRound")
        IN  /\ txPending' = TRUE
            /\ lastAttemptedEpochs' = Attempted(loc[t].e, loc[t].tnow)
            /\ Goto(t, tg.p, tg.l)
            /\ UNCHANGED <<lastHandledEpoch, genesisComplete>>
     \/ LET tg == ScanFrom(loc[t], loc[t].i + 1, lastHandledEpoch)
        IN  /\ txPending' = FALSE
            /\ Goto(t, tg.p, tg.l)
            /\ UNCHANGED <<lastHandledEpoch, lastAttemptedEpochs, genesisComplete>>
  /\ UNCHANGED <<variant, net, now, chain, hist>>

\* recoverStuckRounds: `await prediction.rounds(epoch)` and the test of the
\* close window against the time taken when the sweep started.
recoverStuckRounds(t) ==
  /\ pc[t] = "rsRound"
  /\ \/ LET l == loc[t]
            hit == InWindow(l.tnow, Round(l.e).closeTimestamp)
            tg == IF hit THEN BeginSend(l, "executeRound")
                  ELSE SweepFrom(l, l.e + 1, lastHandledEpoch)
        IN  /\ txPending' = IF hit THEN TRUE ELSE txPending
            /\ lastAttemptedEpochs' =
                 IF hit THEN Attempted(l.e, l.tnow) ELSE lastAttemptedEpochs
            /\ Goto(t, tg.p, tg.l)
            /\ UNCHANGED <<lastHandledEpoch, genesisComplete>>
     \/ ReadThrows(t)
  /\ UNCHANGED <<variant, net, now, chain, hist>>

\* ------------------------------------------------------------- recover

\* `await prediction.paused()` of the stall check; recover() when the
\* contract is not paused.
stallCheck(t) ==
  /\ pc[t] = "paused"
  /\ \/ /\ IF ~paused
             THEN Goto(t, "recEpoch", [loc[t] EXCEPT !.rec = TRUE, !.handled = FALSE])
             ELSE Goto(t, "idle", NoLoc)
        /\ UNCHANGED globals
     \/ ReadThrows(t)
  /\ UNCHANGED <<variant, net, now, chain, hist>>

\* recover(): `await prediction.currentEpoch()` of its first log line,
\* outside its try block.
recover_epoch(t) ==
  /\ pc[t] = "recEpoch"
  /\ \/ /\ Goto(t, "recPaused", loc[t])
        /\ UNCHANGED globals
     \/ ReadThrows(t)
  /\ UNCHANGED <<variant, net, now, chain, hist>>

\* recover(): `await prediction.paused()`, then pause unless paused, then
\* unpause.
recover_paused(t) ==
  /\ pc[t] = "recPaused"
  /\ \/ LET tg == BeginSend(loc[t], IF ~paused THEN "pause" ELSE "unpause")
        IN  /\ Goto(t, tg.p, tg.l)
            /\ UNCHANGED globals
     \/ ReadThrows(t)
  /\ UNCHANGED <<variant, net, now, chain, hist>>

\* recover(): `await sleep(5000); await recover();` of its catch block.
recover_retry(t) ==
  /\ pc[t] = "recSleep"
  /\ Goto(t, "recEpoch", loc[t])
  /\ UNCHANGED <<variant, net, now, chain, globals, hist>>

\* ------------------------------------------------------------ the rest

\* A second of wall-clock time passes.
Tick ==
  /\ now < MaxTime
  /\ now' = now + 1
  /\ UNCHANGED <<variant, net, chain, globals, pc, loc, hist>>

\* The price feeder attaches a price to a started round.  Only the scripts
\* that read oracleCalled can tell the difference, so the step is taken
\* against those.
OracleCalled(e) ==
  /\ NeedsOracleCalled(variant)
  /\ rounds[e].lockTimestamp > 0
  /\ ~rounds[e].oracleCalled
  /\ rounds' = [rounds EXCEPT ![e].oracleCalled = TRUE]
  /\ UNCHANGED <<variant, net, now, genesisStartOnce, genesisLockOnce, paused,
                 currentEpoch, globals, pc, loc, hist>>

\* ======================================================== price feeders

\* loop() is called by a driver that awaits it.  The feeder whose calls are
\* not awaited.
Sequential_never(v) == FALSE

Sequential(v) == v = "feederLoop"

\* fetchPrice retries after a rate-limit response.
Retries429(v) == v \in {"feederTimer", "feederSimple"}

\* The feeder chooses the nonce itself.
ChoosesNonce(v) == v \in {"feederLoop", "feederTimer"}

\* The feeder notifies the prediction contract after the oracle.
TwoStep(v) == v = "feederTimer"

RECURSIVE Pow2(_)
Pow2(k) == IF k = 0 THEN 1 ELSE 2 * Pow2(k - 1)

\* The delay growing by 2 seconds per attempt.
Backoff_linear(attempt) == (2 * attempt * 1000) \div 1000

\* `Math.pow(2, attempt) * 1000` milliseconds, in seconds.
Backoff(attempt) == (Pow2(attempt) * 1000) \div 1000

\* The gap between the pending and the confirmed count above which the
\* nonce is reset.
NonceGapLimit(v) == IF v = "feederLoop" THEN 5 ELSE 10

\* ChooseNonce resetting already at a gap equal to the limit.
ChooseNonce_atLimit(v, pendingNonce, confirmedNonce) ==
  IF pendingNonce >= confirmedNonce + NonceGapLimit(v)
    THEN confirmedNonce ELSE pendingNonce

\* `let nonce = pendingNonce; if (pendingNonce > confirmedNonce + limit)
\* nonce = confirmedNonce`.
ChooseNonce(v, pendingNonce, confirmedNonce) ==
  IF pendingNonce > confirmedNonce + NonceGapLimit(v)
    THEN confirmedNonce ELSE pendingNonce

\* The second transaction with the nonce of the first.
NextNonce_same(nonce) == nonce

\* `nonce: nonce + 1` of oracleUpdate.
NextNonce(nonce) == nonce + 1

\* The feeder's function returns, normally or through its catch: the driver
\* of the first script goes on to its sleep, a timer invocation ends.
FeederEnd(t) ==
  Goto(t, IF variant = "feederLoop" THEN "fSleep" ELSE "idle", NoLoc)

\* The driver of oracle-bot.js (first script) calls loop() for the first
\* time: up to `await prediction.currentEpoch()`.
loop(t) ==
  /\ Loaded
  /\ variant = "feederLoop"
  /\ pc[t] = "idle"
  /\ Sequential(variant) => t = 1
  /\ Goto(t, "fEpoch", NoLoc)
  /\ UNCHANGED <<variant, net, now, chain, globals, hist>>

\* `await sleep(Number(CHECK_INTERVAL))` of the driver ends and loop() is
\* called again.
driver_sleep(t) ==
  /\ pc[t] = "fSleep"
  /\ Goto(t, "fEpoch", NoLoc)
  /\ UNCHANGED <<variant, net, now, chain, globals, hist>>

\* loop(): `await prediction.currentEpoch()`.
loop_epoch(t) ==
  /\ pc[t] = "fEpoch"
  /\ \/ Goto(t, "fRound", [loc[t] EXCEPT !.cur = currentEpoch])
     \/ FeederEnd(t)
  /\ UNCHANGED <<variant, net, now, chain, globals, hist>>

\* loop(): `await prediction.rounds(epoch)`, the log line, and fetchPrice up
\* to its request.
loop_round(t) ==
  /\ pc[t] = "fRound"
  /\ \/ Goto(t, "fetch", [loc[t] EXCEPT !.att = 1])
     \/ FeederEnd(t)
  /\ UNCHANGED <<variant, net, now, chain, globals, hist>>

\* The timer of oracle-bot.js (second script) or of part_006 fires (or the
\* script's own first call): updateOracle up to the request of fetchPrice.
updateOracle(t) ==
  /\ Loaded
  /\ variant \in {"feederTimer", "feederSimple"}
  /\ pc[t] = "idle"
  /\ \A u \in 1..(t - 1) : pc[u] # "idle"
  /\ Goto(t, "fetch", [NoLoc EXCEPT !.att = 1])
  /\ UNCHANGED <<variant, net, now, chain, globals, hist>>

\* The transaction the feeder sends after a price: updatePrice, with the
\* nonce chosen from the two counts where the script reads them.
AfterPrice(l) ==
  IF ChoosesNonce(variant)
    THEN [p |-> "fPending", l |-> l]
    ELSE [p |-> "fSubmit", l |-> [l EXCEPT !.kind = "updatePrice"]]

\* fetchPrice: `await axios.get(...)` answers.  A price is returned; or the
\* answer is 429, and the scripts with backoff sleep before the next
\* request unless this was the last; or another failure (no price in the
\* answer, another status).  The first script returns null on any failure
\* and loop() returns; the others throw to the catch of updateOracle.
fetchPrice(t) ==
  /\ pc[t] = "fetch"
  /\ \/ LET tg == AfterPrice([loc[t] EXCEPT !.status = 200, !.pid = net.srcId,
                                             !.delay = 0, !.att = 0])
        IN  Goto(t, tg.p, tg.l)
     \/ IF Retries429(variant) /\ loc[t].att < MaxRetries
          THEN Goto(t, "backoff", [loc[t] EXCEPT !.status = 429,
                                                 !.delay = Backoff(loc[t].att)])
          ELSE FeederEnd(t)
     \/ FeederEnd(t)
  /\ UNCHANGED <<variant, net, now, chain, globals, hist>>

\* fetchPrice: `await sleep(delay); attempt++`, and the next request.
fetchPrice_sleep(t) ==
  /\ pc[t] = "backoff"
  /\ Goto(t, "fetch", [loc[t] EXCEPT !.att = @ + 1])
  /\ UNCHANGED <<variant, net, now, chain, globals, hist>>

\* `await provider.getTransactionCount(wallet.address, 'pending')`.
getPendingCount(t) ==
  /\ pc[t] = "fPending"
  /\ \/ Goto(t, "fConfirmed", [loc[t] EXCEPT !.pend = net.pending])
     \/ FeederEnd(t)
  /\ UNCHANGED <<variant, net, now, chain, globals, hist>>

\* `await provider.getTransactionCount(wallet.address, 'latest')`, the
\* choice of the nonce, and the call of oracle.updatePrice.
getConfirmedCount(t) ==
  /\ pc[t] = "fConfirmed"
  /\ \/ Goto(t, "fSubmit",
              [loc[t] EXCEPT !.conf = net.confirmed,
                             !.nonce = ChooseNonce(variant, loc[t].pend, net.confirmed),
                             !.kind = "updatePrice"])
     \/ FeederEnd(t)
  /\ UNCHANGED <<variant, net, now, chain, globals, hist>>

\* The nonce a transaction goes out with: the one given, or the pending
\* count the signer fills in.
NonceSent(l) == IF ChoosesNonce(variant) THEN l.nonce ELSE net.pending

\* `await oracle.updatePrice(...)` / `await prediction.oracleUpdate(...)`:
\* the node takes the transaction into its pool unless the nonce is used
\* up, or rejects it.
submitTx(t) ==
  /\ pc[t] = "fSubmit"
  /\ \/ LET n == NonceSent(loc[t])
        IN  /\ n >= net.confirmed
            /\ n < MaxNonce
            /\ net' = [net EXCEPT !.pending = IF n >= @ THEN n + 1 ELSE @]
            /\ Goto(t, "fWait", [loc[t] EXCEPT !.nonce = n, !.pend = 0, !.conf = 0])
     \/ /\ FeederEnd(t)
        /\ UNCHANGED net
  /\ UNCHANGED <<variant, now, chain, globals, hist>>

\* `await tx.wait(2)`: the transaction is confirmed, and after updatePrice
\* the two-step feeder calls prediction.oracleUpdate; or the wait rejects.
\* A confirmed updatePrice makes the fetched price the oracle's latest.
txWait(t) ==
  /\ pc[t] = "fWait"
  /\ \/ /\ net.confirmed > loc[t].nonce
        /\ net' = IF loc[t].kind = "updatePrice"
                    THEN [net EXCEPT !.roundId = loc[t].pid] ELSE net
        /\ IF TwoStep(variant) /\ loc[t].kind = "updatePrice"
             THEN Goto(t, "fSubmit", [loc[t] EXCEPT !.kind = "oracleUpdate",
                                                   !.nonce = NextNonce(@)])
             ELSE FeederEnd(t)
     \/ /\ FeederEnd(t)
        /\ UNCHANGED net
  /\ UNCHANGED <<variant, now, chain, globals, hist>>

\* The chain confirms the wallet's next pending transaction.
Mined ==
  /\ net.confirmed < net.pending
  /\ net' = [net EXCEPT !.confirmed = @ + 1]
  /\ UNCHANGED <<variant, now, chain, globals, pc, loc, hist>>

\* The price source publishes its next price.
NewPrice ==
  /\ net.srcId < MaxSrc
  /\ net' = [net EXCEPT !.srcId = @ + 1]
  /\ UNCHANGED <<variant, now, chain, globals, pc, loc, hist>>

\* ================================================================ scripts

\* The state after the script has loaded, against a fresh contract.
FreshContract ==
  /\ now = 1
  /\ genesisStartOnce = FALSE
  /\ genesisLockOnce = FALSE
  /\ paused = FALSE
  /\ currentEpoch = 0
  /\ rounds = [e \in Epochs |-> NoRound]
  /\ txPending = FALSE
  /\ lastHandledEpoch = 0
  /\ lastAttemptedEpochs = [e \in Epochs |-> 0]
  /\ genesisComplete = FALSE
  /\ pc = [t \in Ticks |-> "idle"]
  /\ loc = [t \in Ticks |-> NoLoc]
  /\ hist = NoHist

\* The state after the script has loaded, against a contract whose two
\* genesis transactions were confirmed in the second before: the script of
\* part_004 has no bootstrapGenesis and acts only against such a contract.
RunningContract ==
  /\ now = 1
  /\ genesisStartOnce = TRUE
  /\ genesisLockOnce = TRUE
  /\ paused = FALSE
  /\ currentEpoch = 2
  /\ rounds = [e \in Epochs |->
                IF e <= 2 THEN [lockTimestamp |-> IntervalSeconds,
                                closeTimestamp |-> 2 * IntervalSeconds,
                                oracleCalled |-> FALSE]
                          ELSE NoRound]
  /\ txPending = FALSE
  /\ lastHandledEpoch = 0
  /\ lastAttemptedEpochs = [e \in Epochs |-> 0]
  /\ genesisComplete = FALSE
  /\ pc = [t \in Ticks |-> "idle"]
  /\ loc = [t \in Ticks |-> NoLoc]
  /\ hist = NoHist

InitWith(vs) == variant \in vs /\ net = NoNet /\ FreshContract

InitRunning(vs) == variant \in vs /\ net = NoNet /\ RunningContract

\* The steps every script has.
Core ==
  \/ \E t \in Ticks :
       \/ checkAndExecute(t)
       \/ bootstrapGenesis_startOnce(t)
       \/ bootstrapGenesis_lockOnce(t)
       \/ sendTx(t)
       \/ readCurrentEpoch(t)
  \/ Tick

InitSafeDelay == InitWith({"safeDelay"})
NextSafeDelay ==
  \/ Core
  \/ \E t \in Ticks : tryExecute(t)
  \/ \E e \in Epochs : OracleCalled(e)
SpecSafeDelay == InitSafeDelay /\ [][NextSafeDelay]_vars

InitRecovery == InitWith({"recovery"})
NextRecovery ==
  \/ Core
  \/ \E t \in Ticks :
       \/ tryExecute(t)
       \/ bootstrapGenesis_sleep(t)
       \/ stallCheck(t)
       \/ recover_epoch(t)
       \/ recover_paused(t)
       \/ recover_retry(t)
  \/ \E e \in Epochs : OracleCalled(e)
SpecRecovery == InitRecovery /\ [][NextRecovery]_vars

\* The recovery variant started against a contract that is already running.
SpecRunning == InitRunning({"recovery"}) /\ [][NextRecovery]_vars

InitCooldown == InitWith({"cooldown"})
NextCooldown ==
  \/ Core
  \/ \E t \in Ticks :
       \/ bootstrapGenesis_sleep(t)
       \/ bootstrapGenesis_epoch(t)
       \/ bootstrapGenesis_round(t)
       \/ recoverStuckRounds(t)
       \/ tryExecute_rounds(t)
       \/ tryExecute_oracle(t)
SpecCooldown == InitCooldown /\ [][NextCooldown]_vars

InitWindow == InitWith({"recovery", "safeDelay"})
SpecWindow == InitWindow /\ [][NextRecovery]_vars

InitIdempotence == InitWith({"recovery", "wideScan"})
SpecIdempotence == InitIdempotence /\ [][NextRecovery]_vars

InitMissed == InitWith({"recovery", "noMark"})
NextMissed ==
  \/ NextRecovery
  \/ \E t \in Ticks :
       \/ bootstrapGenesis_epoch(t)
       \/ bootstrapGenesis_round(t)
SpecMissed == InitMissed /\ [][NextMissed]_vars

InitGenesisOrder == InitWith({"recovery", "cooldown"})
NextGenesisOrder ==
  \/ NextMissed
  \/ \E t \in Ticks :
       \/ recoverStuckRounds(t)
       \/ tryExecute_rounds(t)
       \/ tryExecute_oracle(t)
SpecGenesisOrder == InitGenesisOrder /\ [][NextGenesisOrder]_vars

NextLockExecute ==
  \/ Core
  \/ \E t \in Ticks : lockOrExecute(t)
SpecLockExecute == InitWith({"lockExecute"}) /\ [][NextLockExecute]_vars

InitGenesis == InitWith({"recovery", "genesisFlag"})
SpecGenesis == InitGenesis /\ [][NextRecovery]_vars

InitCloseAnchored ==
  \/ InitWith({"closeAnchored", "guardless"})
  \/ InitRunning({"closeAnchored", "guardless"})
NextCloseAnchored ==
  \/ Core
  \/ \E t \in Ticks :
       \/ tryExecute(t)
       \/ sendTx_fee(t)
       \/ sendTx_bump(t)
SpecCloseAnchored == InitCloseAnchored /\ [][NextCloseAnchored]_vars

\* The transactions the wallet has in the pool when the feeder starts: none,
\* or a gap at the feeder's limit, or one above it.
PendingAtStart(v) == {0, NonceGapLimit(v), NonceGapLimit(v) + 1}

InitFeeder(vs) ==
  /\ variant \in vs
  /\ \E g \in PendingAtStart(variant) : net = [NoNet EXCEPT !.pending = g]
  /\ RunningContract

\* The steps of the feeders' transactions.
FeederCore ==
  \/ \E t \in Ticks :
       \/ fetchPrice(t)
       \/ submitTx(t)
       \/ txWait(t)
  \/ Mined

NextFeederLoop ==
  \/ FeederCore
  \/ \E t \in Ticks :
       \/ loop(t)
       \/ driver_sleep(t)
       \/ loop_epoch(t)
       \/ loop_round(t)
       \/ getPendingCount(t)
       \/ getConfirmedCount(t)
SpecFeederLoop == InitFeeder({"feederLoop"}) /\ [][NextFeederLoop]_vars

NextFeederTimer ==
  \/ FeederCore
  \/ \E t \in Ticks :
       \/ updateOracle(t)
       \/ fetchPrice_sleep(t)
       \/ getPendingCount(t)
       \/ getConfirmedCount(t)
SpecFeederTimer == InitFeeder({"feederTimer"}) /\ [][NextFeederTimer]_vars

SpecBackoff ==
  InitFeeder({"feederTimer", "feederSimple"}) /\ [][NextFeederTimer]_vars

\* The sequential feeder against a price source that moves on.
NextFresh == NextFeederLoop \/ NewPrice
SpecFresh == InitFeeder({"feederLoop"}) /\ [][NextFresh]_vars

NextFeeder == NextFeederLoop \/ NextFeederTimer
SpecNonce == InitFeeder({"feederLoop", "feederTimer"}) /\ [][NextFeeder]_vars

\* The environments a script may be started in: everything set, or one of
\* the names every script tests missing.
Environments ==
  {Keys} \cup {Keys \ {k} : k \in {"RPC_URL", "PREDICTION_ADDRESS", "KEY"}}

InitConfig ==
  /\ variant \in {"recovery", "feederLoop"}
  /\ \E c \in Environments : net = [NoNet EXCEPT !.config = c]
  /\ FreshContract
NextConfig == NextRecovery \/ NextFeederLoop
SpecConfig == InitConfig /\ [][NextConfig]_vars

\* Both scripts of operator-bot.js against a contract whose bufferSeconds
\* is not the script's BUFFER_SECONDS.
InitBuffer ==
  /\ variant \in {"recovery", "cooldown"}
  /\ net = [NoNet EXCEPT !.bufferSeconds = BUFFER_SECONDS + 1]
  /\ FreshContract
SpecBuffer == InitBuffer /\ [][NextGenesisOrder]_vars

\* ================================================================ claims

\* Invocation t takes a step.
Moves(t) == pc'[t] # pc[t] \/ loc'[t] # loc[t]

\* Invocation t starts a call of sendTx for a transaction of this kind.
Submits(t, kind) ==
  /\ pc'[t] = "send"
  /\ loc'[t].kind = kind
  /\ loc'[t].att = 1
  /\ pc[t] # "send" \/ loc[t].kind # kind

\* Invocation t evaluates the round of an epoch: tryExecute resumes from
\* `await prediction.rounds(epoch)` with the round read.
Evaluates(t) == pc[t] = "round" /\ Moves(t) /\ ~TickCatch(t)

\* C1: in the safe-delay variant, tryExecute submits executeRound if and only
\* if lockTimestamp > 0, oracleCalled and
\* lockTimestamp + SAFE_DELAY <= now <= lockTimestamp + BUFFER_SECONDS;
\* past the window the epoch is marked (MarkMissed), otherwise nothing
\* changes (Skip).
C1_ExecuteIffInWindow ==
  [][\A t \in Ticks :
       Evaluates(t) =>
         LET e == loc[t].e
             r == Round(e)
             open == /\ r.lockTimestamp > 0
                     /\ r.oracleCalled
                     /\ r.lockTimestamp + SAFE_DELAY <= now
                     /\ now <= r.lockTimestamp + BUFFER_SECONDS
             over == r.lockTimestamp > 0 /\ now > r.lockTimestamp + BUFFER_SECONDS
         IN  /\ Submits(t, "executeRound") <=> open
             /\ over => lastHandledEpoch' = e
             /\ ~open /\ ~over => lastHandledEpoch' = lastHandledEpoch]_vars

\* C1's case: executeRound submitted at the first second of the window.
C1_Witness ==
  \E t \in Ticks :
    /\ variant = "safeDelay"
    /\ pc[t] = "send"
    /\ loc[t].kind = "executeRound"
    /\ now = Round(loc[t].e).lockTimestamp + SAFE_DELAY

\* C2 as stated: for every evaluated round with lockTimestamp > 0 and both
\* values of oracleCalled, the decision at now = lockTimestamp +
\* BUFFER_SECONDS is Execute and one second later it is MarkMissed.
C2_Original ==
  [][\A t \in Ticks :
       Evaluates(t) /\ Round(loc[t].e).lockTimestamp > 0 =>
         LET e == loc[t].e
             end == Round(e).lockTimestamp + BUFFER_SECONDS
         IN  /\ now = end => Submits(t, "executeRound")
             /\ now = end + 1 =>
                  ~Submits(t, "executeRound") /\ lastHandledEpoch' = e]_vars

\* C2 amended: at now = lockTimestamp + BUFFER_SECONDS the decision is
\* Execute when oracleCalled is true (and SAFE_DELAY <= BUFFER_SECONDS) and
\* Skip when it is false; one second later it is MarkMissed for both values.
C2_LastSecond ==
  [][\A t \in Ticks :
       Evaluates(t) /\ Round(loc[t].e).lockTimestamp > 0 =>
         LET e == loc[t].e
             r == Round(e)
             end == r.lockTimestamp + BUFFER_SECONDS
         IN  /\ now = end /\ r.oracleCalled /\ SAFE_DELAY <= BUFFER_SECONDS =>
                  Submits(t, "executeRound")
             /\ now = end /\ ~r.oracleCalled =>
                  ~Submits(t, "executeRound") /\ lastHandledEpoch' = lastHandledEpoch
             /\ now = end + 1 =>
                  ~Submits(t, "executeRound") /\ lastHandledEpoch' = e]_vars

\* C2's case: executeRound submitted at the last second of the window.
C2_Witness ==
  \E t \in Ticks :
    /\ pc[t] = "send"
    /\ loc[t].kind = "executeRound"
    /\ loc[t].att = 1
    /\ now = Round(loc[t].e).lockTimestamp + BUFFER_SECONDS

\* The invocations inside a call of sendTx for a transaction of this kind.
InFlight(kind) == {t \in Ticks : InSendTx(t) /\ loc[t].kind = kind}

\* C3 as stated: in the recovery variant at most one call of sendTx, of any
\* kind, is in flight at any time.
C3_Original == Cardinality({t \in Ticks : InSendTx(t)}) <= 1

\* C4: a checkAndExecute invocation that starts while txPending is true
\* returns at once: it reads nothing from the contract, submits nothing and
\* leaves txPending, lastHandledEpoch and lastAttemptedEpochs unchanged.
C4_ReentrantNoOp ==
  [][\A t \in Ticks :
       pc[t] = "idle" /\ txPending /\ Moves(t) =>
         /\ pc'[t] = "idle"
         /\ chain' = chain
         /\ globals' = globals]_vars

\* C4's case: an invocation has returned on the guard while another
\* invocation's executeRound is still in flight.
C4_Witness ==
  \E t \in Ticks :
    /\ pc[t] = "idle" /\ loc[t].noop
    /\ txPending
    /\ InFlight("executeRound") # {}

\* C5 as stated: in the cooldown variant, once both genesis flags are true,
\* txPending is true if and only if an executeRound submission is in flight.
C5_Original ==
  genesisStartOnce /\ genesisLockOnce =>
    (txPending <=> InFlight("executeRound") # {})

\* C6 as stated: no invocation submits executeRound on behalf of an epoch
\* e <= lastHandledEpoch, and evaluating such an epoch never changes
\* lastHandledEpoch.
C6_Original ==
  [][\A t \in Ticks :
       /\ Submits(t, "executeRound") => loc'[t].e > lastHandledEpoch
       /\ Evaluates(t) /\ loc[t].e <= lastHandledEpoch =>
            lastHandledEpoch' = lastHandledEpoch]_vars

\* C7 as stated: lastHandledEpoch never decreases.
C7_Original == [][lastHandledEpoch' >= lastHandledEpoch]_vars

\* The scan of invocation t goes on after the epoch at position loc[t].i:
\* if a later position of the list holds an epoch above lastHandledEpoch, the
\* invocation reads a round again.
ScanContinues(t) ==
  LET s == ScanList(variant, loc[t].cur)
  IN  (\E j \in (loc[t].i + 1)..Len(s) : s[j] > 0 /\ s[j] > lastHandledEpoch')
        => pc'[t] = "round" /\ loc'[t].i > loc[t].i

\* C8 as stated: when tryExecute evaluates an epoch e > lastHandledEpoch
\* whose round has lockTimestamp > 0 and now > lockTimestamp +
\* BUFFER_SECONDS, it submits nothing for e, lastHandledEpoch >= e
\* afterwards, the scan of that tick continues, and no invocation submits
\* executeRound for e later.
C8_Original ==
  [][\A t \in Ticks :
       /\ ( /\ Evaluates(t)
            /\ loc[t].e > lastHandledEpoch
            /\ Round(loc[t].e).lockTimestamp > 0
            /\ now > Round(loc[t].e).lockTimestamp + BUFFER_SECONDS )
          => /\ ~Submits(t, "executeRound")
             /\ lastHandledEpoch' >= loc[t].e
             /\ ScanContinues(t)
       /\ Submits(t, "executeRound") => loc'[t].e \notin hist.missed]_vars

\* C9: genesisLockRound is submitted only by an invocation whose read of
\* genesisStartOnce returned true, and only after a genesisStartRound
\* transaction has been confirmed.
C9_GenesisOrder ==
  \A t \in InFlight("genesisLockRound") : loc[t].so /\ hist.startConfirmed

\* C9's case: a genesisLockRound submission is in flight.
C9_Witness == InFlight("genesisLockRound") # {}

Scanning(t) ==
  \/ pc[t] \in {"epoch", "rsRound", "round", "oracle"}
  \/ InSendTx(t) /\ loc[t].kind = "executeRound"

\* C11 as stated: in the cooldown variant an invocation goes on to scanning
\* (reads currentEpoch, calls recoverStuckRounds or tryExecute, submits
\* executeRound) only after it has read both genesis flags as true; a tick
\* that found them not both true returns after the bootstrapping step.
C11_Original == \A t \in Ticks : Scanning(t) => loc[t].sawDone

\* A call of sendTx by invocation t ends in this step: it is no longer in
\* sendTx, or it is in the next call (unpause after pause).
SendEnds(t) ==
  /\ InSendTx(t)
  /\ Moves(t)
  /\ pc'[t] # "send" \/ loc'[t].kind # loc[t].kind

\* C12: sendTx makes at most 3 attempts in the first script of
\* operator-bot.js and at most 5 in the second; a call ends either with a
\* confirmed transaction (the receipt is returned and the caller goes on) or,
\* after the last attempt has failed, with the error thrown to the caller's
\* handler; it never ends without a confirmation before the last attempt.
C12_SendTxBounded ==
  [][\A t \in Ticks :
       LET limit == IF variant = "recovery" THEN 3 ELSE 5
           k == loc[t].kind
       IN  /\ InSendTx(t) => loc[t].att \in 1..limit
           /\ InSendTx(t) /\ Moves(t) /\ ~SendEnds(t) =>
                /\ loc'[t].att = loc[t].att + 1
                /\ loc[t].att < limit
                /\ chain' = chain
           /\ SendEnds(t) /\ chain' # chain =>
                /\ Accepts(k)
                /\ k = "executeRound" => lastHandledEpoch' = loc[t].e
                /\ IsGenesis(k) => pc'[t] = "sleep"
                /\ k = "pause" => Submits(t, "unpause")
                /\ k = "unpause" => pc'[t] = "genStart"
           /\ SendEnds(t) /\ chain' = chain =>
                /\ loc[t].att = limit
                /\ lastHandledEpoch' = lastHandledEpoch
                /\ pc'[t] \notin {"sleep", "genStart", "send"}
                /\ k = "executeRound" \/ ~loc[t].rec => txPending' = FALSE]_vars

\* C12's case: sendTx of the second script is at its fifth attempt.
C12_Witness ==
  \E t \in Ticks : variant = "cooldown" /\ InSendTx(t) /\ loc[t].att = 5

\* A call of sendTx by invocation t ends with the error thrown: the last
\* attempt has failed.
SendThrows(t) == SendEnds(t) /\ chain' = chain

\* C13 as stated: when sendTx(executeRound) throws inside tryExecute of the
\* cooldown variant, then txPending is false, lastHandledEpoch is unchanged
\* and lastAttemptedEpochs[epoch] is the time of the failure; the invocation
\* goes on.
C13_Original ==
  [][\A t \in Ticks :
       /\ variant = "cooldown"
       /\ loc[t].kind = "executeRound"
       /\ ~loc[t].rec
       /\ SendThrows(t)
       => /\ txPending' = FALSE
          /\ lastHandledEpoch' = lastHandledEpoch
          /\ lastAttemptedEpochs'[loc[t].e] = now]_vars

\* C14 as stated: a tick of the recovery variant starts at most one call of
\* sendTx, whether it succeeds or fails and counting the calls of recover(),
\* and evaluates no further epoch after its executeRound submission.  Step
\* by step: when a call of sendTx ends, the invocation does not start
\* another call, and after an executeRound call it reads no further round.
C14_Original ==
  [][\A t \in Ticks :
       SendEnds(t) =>
         /\ pc'[t] # "send"
         /\ loc[t].kind = "executeRound" => pc'[t] # "round"]_vars

\* C15: an exception raised in a tick (a rejected contract read, a failed
\* genesis submission, a failed executeRound where tryExecute has no
\* try/catch of its own) ends the invocation in the catch of
\* checkAndExecute: the invocation is over, txPending is false, and the next
\* timer firing passes the guard and runs a tick from its first await.
C15_ExceptionsCaught ==
  [][\A t \in Ticks :
       /\ ( /\ SendThrows(t)
            /\ ~loc[t].rec
            /\ IsGenesis(loc[t].kind) \/ ~InnerCatch(variant) )
          => pc'[t] = "idle" /\ loc'[t] = NoLoc /\ txPending' = FALSE
       /\ pc[t] \in {"genStart", "genLock"} /\ ~loc[t].rec /\ pc'[t] = "idle"
          => loc'[t] = NoLoc /\ txPending' = FALSE
       /\ pc[t] = "idle" /\ ~txPending /\ Moves(t)
          => pc'[t] = "genStart" /\ loc'[t] = NoLoc]_vars

\* C15's case: in part_000 an executeRound submission is in flight, no
\* executeRound has been confirmed since its invocation read currentEpoch,
\* and txPending is false again: the catch of another invocation has run.
C15_Witness ==
  \E t \in InFlight("executeRound") :
    /\ variant = "safeDelay"
    /\ loc[t].cur = currentEpoch
    /\ ~txPending

\* C16 as stated: in the cooldown variant an executeRound submission for
\* epoch e, decided at time t2, follows the previous submission for e,
\* decided at t1 < t2 (the entry of lastAttemptedEpochs), by at least the
\* cooldown, whether it is made by tryExecute or by recoverStuckRounds.
C16_Original ==
  [][\A t \in Ticks :
       variant = "cooldown" /\ Submits(t, "executeRound") =>
         LET t1 == lastAttemptedEpochs[loc'[t].e]
             t2 == loc'[t].tnow
         IN  t1 > 0 /\ t1 < t2 => t2 - t1 >= Cooldown]_vars

\* Epoch e passes the tests at the head of the loop body and of tryExecute:
\* it is positive, above lastHandledEpoch, and its last recorded attempt, if
\* any, is at least the cooldown ago.
Retryable(e) ==
  /\ e > 0
  /\ e > lastHandledEpoch
  /\ e \in Epochs /\ lastAttemptedEpochs[e] > 0
       => now - lastAttemptedEpochs[e] >= Cooldown

C18_Original ==
  [][\A t \in Ticks :
       /\ Evaluates(t) => \A r \in RoundsRead(variant, loc[t].e) : r > 0
       /\ pc[t] = "rsRound" /\ Moves(t) => loc[t].e > 0]_vars

\* C19 as stated: in the recovery variant recover() is started only by a
\* stall check that reads the contract as paused, and while the contract is
\* not paused no transaction of recover() (pause, unpause, genesis) is
\* submitted.
C19_Original ==
  [][\A t \in Ticks :
       /\ pc[t] = "paused" /\ pc'[t] = "recEpoch" => paused
       /\ \A k \in {"pause", "unpause", "genesisStartRound", "genesisLockRound"} :
            loc'[t].rec /\ Submits(t, k) => paused]_vars

\* C20 as stated: in the recovery variant an invocation that has itself
\* written lastHandledEpoch (a confirmed executeRound, or a missed epoch)
\* does not start recover() in the same tick.
C20_Original ==
  [][\A t \in Ticks :
       pc[t] = "paused" /\ loc[t].handled => pc'[t] # "recEpoch"]_vars

\* C28 as stated: in the cooldown variant, for every epoch e, at most one
\* executeRound submission on behalf of e is in flight at any time.
C28_Original ==
  \A e \in Epochs :
    Cardinality({t \in InFlight("executeRound") : loc[t].e = e}) <= 1

\* Invocation t decides to execute the round it has read: tryExecute goes
\* from `await prediction.rounds(epoch)` into the submission of executeRound.
DecidesExecute(t) ==
  /\ pc[t] = "round"
  /\ pc'[t] \in {"fee", "send"}
  /\ loc'[t].kind = "executeRound"

\* C21 as stated: in the close-anchored and the guard-less variant,
\* executeRound is submitted only when the reference timestamp (the round's
\* closeTimestamp, the one these scripts compare with) is positive and
\* closeTimestamp <= now <= closeTimestamp + BUFFER_SECONDS.
C21_Original ==
  [][\A t \in Ticks :
       variant \in {"closeAnchored", "guardless"} /\ DecidesExecute(t) =>
         LET ref == Round(loc[t].e).closeTimestamp
         IN  ref > 0 /\ ref <= now /\ now <= ref + BUFFER_SECONDS]_vars

\* C24: the sendTx of part_002 makes at most 5 attempts; the gas price of an
\* attempt is at least 1000 gwei and the report of getFeeData never lowers
\* it; the next attempt is started only by the rejection `replacement
\* underpriced`, before the fifth attempt, with the contract untouched and
\* a price at least 50 gwei higher; a call that ends without a confirmed
\* transaction (another error at any attempt, or the fifth rejection) ends
\* in the catch of checkAndExecute.
C24_FeeBumping ==
  [][\A t \in Ticks :
       variant = "closeAnchored" =>
         /\ pc[t] \in {"fee", "send"} =>
              loc[t].att \in 1..5 /\ loc[t].gas >= 1000
         /\ pc[t] = "fee" /\ pc'[t] = "send" =>
              /\ loc'[t].att = loc[t].att
              /\ loc'[t].gas >= loc[t].gas
              /\ chain' = chain
         /\ pc[t] = "send" /\ pc'[t] = "fee" =>
              /\ loc[t].att < 5
              /\ loc'[t].att = loc[t].att + 1
              /\ loc'[t].gas >= loc[t].gas + 50
              /\ loc'[t].kind = loc[t].kind
              /\ chain' = chain
         /\ pc[t] \in {"fee", "send"} /\ pc'[t] \notin {"fee", "send"}
              /\ chain' = chain =>
              /\ pc'[t] = "idle"
              /\ txPending' = FALSE
              /\ lastHandledEpoch' = lastHandledEpoch]_vars

\* C24's case: the fifth attempt, after four bumps.
C24_Witness ==
  \E t \in Ticks :
    /\ variant = "closeAnchored"
    /\ pc[t] = "send"
    /\ loc[t].att = 5
    /\ loc[t].gas >= 1200

\* C25: fetchPrice with backoff makes at most 5 requests per call; it sleeps
\* and retries only after an answer 429 that was not the fifth, the sleep
\* after attempt k being 2^k seconds (2, 4, 8, 16); every other failure and
\* a 429 at the fifth attempt are thrown to the caller's catch, where the
\* invocation ends without a transaction; the call returns only with a
\* price.
C25_FetchBounded ==
  [][\A t \in Ticks :
       variant \in {"feederTimer", "feederSimple"} =>
         /\ pc[t] \in {"fetch", "backoff"} => loc[t].att \in 1..5
         /\ pc[t] = "backoff" =>
              /\ loc[t].status = 429
              /\ loc[t].att < 5
              /\ loc[t].delay = CASE loc[t].att = 1 -> 2
                                  [] loc[t].att = 2 -> 4
                                  [] loc[t].att = 3 -> 8
                                  [] OTHER -> 16
         /\ pc[t] = "fetch" /\ Moves(t) =>
              \/ pc'[t] = "backoff" /\ loc'[t].att = loc[t].att
              \/ /\ pc'[t] \in {"fPending", "fSubmit"}
                 /\ loc'[t].status = 200
                 /\ loc'[t].pid > 0
              \/ pc'[t] = "idle" /\ loc'[t] = NoLoc /\ net' = net
         /\ pc[t] = "backoff" /\ Moves(t) =>
              pc'[t] = "fetch" /\ loc'[t].att = loc[t].att + 1]_vars

\* C25's case: the sleep of 16 seconds before the fifth request.
C25_Witness ==
  \E t \in Ticks :
    /\ variant \in {"feederTimer", "feederSimple"}
    /\ pc[t] = "backoff"
    /\ loc[t].att = 4
    /\ loc[t].delay = 16

\* C26 as stated: the nonce of updatePrice is the confirmed count when the
\* pending count exceeds it by more than the threshold (5 in the first
\* script of oracle-bot.js, 10 in the second) and the pending count
\* otherwise, so confirmed <= nonce <= confirmed + threshold.
C26_Original ==
  \A t \in Ticks :
    /\ variant \in {"feederLoop", "feederTimer"}
    /\ pc[t] = "fSubmit"
    /\ loc[t].kind = "updatePrice"
    => LET threshold == IF variant = "feederLoop" THEN 5 ELSE 10
           l == loc[t]
       IN  /\ l.nonce = IF l.pend > l.conf + threshold THEN l.conf ELSE l.pend
           /\ l.conf <= l.nonce
           /\ l.nonce <= l.conf + threshold

\* C26, amended: the nonce of updatePrice is the confirmed count as read
\* when the pending count as read exceeds it by more than the threshold (5
\* in the first script of oracle-bot.js, 10 in the second) and the pending
\* count as read otherwise; so nonce <= confirmed + threshold, and
\* confirmed <= nonce whenever the pending count read was not below the
\* confirmed count read after it.
C26_NonceChoice ==
  \A t \in Ticks :
    /\ variant \in {"feederLoop", "feederTimer"}
    /\ pc[t] = "fSubmit"
    /\ loc[t].kind = "updatePrice"
    => LET threshold == IF variant = "feederLoop" THEN 5 ELSE 10
           l == loc[t]
       IN  /\ l.nonce = IF l.pend > l.conf + threshold THEN l.conf ELSE l.pend
           /\ l.nonce <= l.conf + threshold
           /\ l.pend >= l.conf => l.conf <= l.nonce

\* C26's case: a gap exactly at the threshold, and the pending count used.
C26_Witness ==
  \E t \in Ticks :
    /\ variant = "feederTimer"
    /\ pc[t] = "fSubmit"
    /\ loc[t].kind = "updatePrice"
    /\ loc[t].pend = loc[t].conf + 10
    /\ loc[t].nonce = loc[t].pend

\* Invocation t calls oracle.updatePrice.
SubmitsPrice(t) ==
  /\ pc'[t] = "fSubmit"
  /\ pc[t] # "fSubmit"
  /\ loc'[t].kind = "updatePrice"

\* C27 as stated: the feeder submits no updatePrice when the oracle already
\* has a price at least as fresh as the one fetched, by the round
\* identifier of the price source.
C27_Original ==
  [][\A t \in Ticks : SubmitsPrice(t) => net.roundId < loc'[t].pid]_vars

\* Invocation t calls prediction.oracleUpdate.
SubmitsOracleUpdate(t) ==
  /\ pc'[t] = "fSubmit"
  /\ loc'[t].kind = "oracleUpdate"
  /\ ~(pc[t] = "fSubmit" /\ loc[t].kind = "oracleUpdate")

\* C29: in the two-step feeder an invocation calls prediction.oracleUpdate
\* only when resuming from the wait for its updatePrice with that
\* transaction confirmed, and with the nonce of updatePrice plus one; an
\* invocation whose fetchPrice or updatePrice failed ends without calling
\* it.
C29_OracleUpdateAfterPrice ==
  [][\A t \in Ticks :
       variant = "feederTimer" =>
         /\ SubmitsOracleUpdate(t) =>
              /\ pc[t] = "fWait"
              /\ loc[t].kind = "updatePrice"
              /\ net.confirmed > loc[t].nonce
              /\ loc'[t].nonce = loc[t].nonce + 1
         /\ /\ pc[t] \in {"fetch", "backoff", "fPending", "fConfirmed", "fSubmit", "fWait"}
            /\ loc[t].kind # "oracleUpdate"
            /\ Moves(t)
            /\ ~SubmitsOracleUpdate(t)
            => loc'[t].kind # "oracleUpdate"
         /\ pc[t] \in {"fSubmit", "fWait"} /\ loc[t].kind = "updatePrice"
              /\ pc'[t] = "idle" => loc'[t] = NoLoc]_vars

\* C29's case: oracleUpdate has been submitted and is waited for.
C29_Witness ==
  \E t \in Ticks :
    /\ variant = "feederTimer"
    /\ pc[t] = "fWait"
    /\ loc[t].kind = "oracleUpdate"
    /\ loc[t].nonce >= 1

\* The invocations of the feeder inside loop().
InLoop == {t \in Ticks : pc[t] \notin {"idle", "fSleep"}}

\* C30: in the sequential feeder at most one loop() is running and at most
\* one updatePrice is in flight; loop() is called only by the driver, at its
\* start or after its sleep, while no other loop() is running; and however
\* loop() ends, the driver goes on to its sleep.
C30_SequentialFeeder ==
  [][variant = "feederLoop" =>
       /\ Cardinality(InLoop) <= 1
       /\ Cardinality({t \in Ticks : pc[t] \in {"fSubmit", "fWait"}}) <= 1
       /\ \A t \in Ticks :
            /\ pc'[t] = "fEpoch" /\ pc[t] # "fEpoch" =>
                 /\ pc[t] \in {"idle", "fSleep"}
                 /\ InLoop = {}
            /\ t \in InLoop /\ Moves(t) => pc'[t] # "idle"
            /\ pc[t] = "fSleep" => pc'[t] \in {"fSleep", "fEpoch"}]_vars

\* C30's case: an updatePrice is in flight in a later iteration, the price
\* of an earlier one on the oracle.
C30_Witness ==
  \E t \in Ticks :
    /\ variant = "feederLoop"
    /\ pc[t] = "fWait"
    /\ net.roundId > 0

\* C22: when RPC_URL, PREDICTION_ADDRESS or the signing key is missing, the
\* script has thrown at load: no invocation of checkAndExecute or loop ever
\* starts, no transaction is submitted, and the contract, the wallet and
\* the script's variables stay as they were.
C22_MissingConfigStops ==
  (\E k \in {"RPC_URL", "PREDICTION_ADDRESS", "KEY"} : k \notin net.config) =>
    /\ \A t \in Ticks : pc[t] = "idle" /\ loc[t] = NoLoc
    /\ ~genesisStartOnce /\ ~genesisLockOnce /\ ~paused /\ currentEpoch = 0
    /\ ~txPending /\ lastHandledEpoch = 0
    /\ net.pending = 0 /\ net.confirmed = 0 /\ net.roundId = 0
    /\ hist = NoHist

\* C22's case: the signing key is missing and time has passed.
C22_Witness ==
  /\ "KEY" \notin net.config
  /\ now > 1

\* C23: with the contract's bufferSeconds different from the local
\* BUFFER_SECONDS, every decision of both scripts of operator-bot.js is the
\* one the local BUFFER_SECONDS gives: the execute window and the missed
\* mark of tryExecute, the close window of recoverStuckRounds, the genesis
\* lock window; the value read from the contract changes no submission and
\* no write of txPending or lastHandledEpoch.
C23_LocalBufferOnly ==
  [][/\ net.bufferSeconds # BUFFER_SECONDS
     /\ net' = net
     /\ \A t \in Ticks :
          LET e == loc[t].e
              r == Round(e)
              n == IF variant = "cooldown" THEN loc[t].tnow ELSE now
              open == /\ r.lockTimestamp > 0
                      /\ n >= r.lockTimestamp
                      /\ n <= r.lockTimestamp + BUFFER_SECONDS
              over == r.lockTimestamp > 0 /\ n > r.lockTimestamp + BUFFER_SECONDS
              closing == /\ r.closeTimestamp > 0
                         /\ n >= r.closeTimestamp
                         /\ n <= r.closeTimestamp + BUFFER_SECONDS
              lockTime == Round(loc[t].cur).lockTimestamp
          IN  /\ variant = "recovery" /\ Evaluates(t) =>
                   /\ Submits(t, "executeRound") <=> open /\ r.oracleCalled
                   /\ txPending' = IF open /\ r.oracleCalled THEN TRUE ELSE txPending
                   /\ over => lastHandledEpoch' = e
                   /\ ~over => lastHandledEpoch' = lastHandledEpoch
              /\ variant = "cooldown" /\ Evaluates(t) =>
                   /\ pc'[t] = "oracle" <=> open /\ CanExecute(e, n)
                   /\ UNCHANGED <<txPending, lastHandledEpoch>>
              /\ pc[t] = "rsRound" /\ Moves(t) /\ ~TickCatch(t) =>
                   /\ Submits(t, "executeRound") <=> closing
                   /\ closing => txPending'
                   /\ lastHandledEpoch' = lastHandledEpoch
              /\ pc[t] = "genRound" /\ Moves(t) /\ ~TickCatch(t) =>
                   Submits(t, "genesisLockRound") <=>
                     /\ now >= lockTime
                     /\ variant = "cooldown" => now <= lockTime + BUFFER_SECONDS]_vars

\* C23's case: the contract reports another bufferSeconds, and an
\* executeRound decided by the local window is in flight.
C23_Witness ==
  /\ net.bufferSeconds # BUFFER_SECONDS
  /\ InFlight("executeRound") # {}

\* Invocation t is inside tryExecute of the cooldown variant, past its
\* window test: at the oracle read or inside sendTx(executeRound).
InTryExecute(t) ==
  /\ ~loc[t].rec
  /\ \/ pc[t] = "oracle"
     \/ pc[t] = "send" /\ loc[t].kind = "executeRound"

\* C31: in the cooldown variant tryExecute(epoch) with epoch >= 2 gets past
\* its window test, and so to a submission, only if round epoch - 2 has
\* closeTimestamp # 0 and the `now` of the call is at least that
\* closeTimestamp; for an epoch whose round epoch - 2 has closeTimestamp 0
\* tryExecute submits nothing and writes no lastHandledEpoch.
C31_WaitsForRoundBefore ==
  [][\A t \in Ticks :
       variant = "cooldown" =>
         LET e == loc[t].e
             prev2 == Round(e - 2)
         IN  /\ InTryExecute(t) /\ e >= 2 =>
                  prev2.closeTimestamp # 0 /\ loc[t].tnow >= prev2.closeTimestamp
             /\ pc[t] = "round" /\ e >= 2 /\ prev2.closeTimestamp = 0 /\ Moves(t) =>
                  /\ pc'[t] \notin {"oracle", "send"} \/ loc'[t].e # e
                  /\ lastHandledEpoch' = lastHandledEpoch
                  /\ txPending' = txPending \/ TickCatch(t)
             /\ Submits(t, "executeRound") /\ ~loc'[t].rec =>
                  pc[t] = "oracle" /\ loc'[t].e = e]_vars

\* C31's case: tryExecute has submitted executeRound for an epoch >= 2.
C31_Witness ==
  \E t \in Ticks :
    /\ variant = "cooldown"
    /\ InTryExecute(t)
    /\ pc[t] = "send"
    /\ loc[t].e >= 2

\* The genesis lock window of the current round has been missed: started,
\* not locked, and past lockTimestamp + BUFFER_SECONDS.
GenesisLockMissed ==
  /\ genesisStartOnce
  /\ ~genesisLockOnce
  /\ now > Round(currentEpoch).lockTimestamp + BUFFER_SECONDS

\* C32: in the cooldown variant, once the genesis lock window is missed,
\* bootstrapGenesis submits nothing and returns false (the tick goes on to
\* read currentEpoch), no tick starts a genesisLockRound submission, and the
\* window stays missed while the contract's state is unchanged.
C32_MissedGenesisLockAbsorbing ==
  [][variant = "cooldown" /\ GenesisLockMissed =>
       /\ \A t \in Ticks :
            /\ ~Submits(t, "genesisLockRound")
            /\ pc[t] = "genRound" /\ Moves(t) /\ ~TickCatch(t) =>
                 pc'[t] = "epoch" /\ UNCHANGED <<chain, globals>>
       /\ chain' = chain => GenesisLockMissed']_vars

\* C32's case: a tick is inside bootstrapGenesis, about to test the window,
\* after the window was missed.
C32_Witness ==
  /\ variant = "cooldown"
  /\ GenesisLockMissed
  /\ \E t \in Ticks : pc[t] = "genRound"

\* The invocation is inside recover(), called from the stall check.
InRecover(t) == variant = "recovery" /\ loc[t].rec

\* C33, as stated: in the recovery variant recover() never reports failure
\* to its caller: an invocation inside recover() ends only when
\* bootstrapGenesis has completed, never through the catch of
\* checkAndExecute, and txPending is false throughout recovery.
C33_Original ==
  [][\A t \in Ticks :
       InRecover(t) =>
         /\ ~txPending
         /\ Moves(t) /\ pc'[t] = "idle" => pc[t] \in {"genLock", "sleep"}]_vars

\* Invocation t, in recoverStuckRounds, goes on with the loop at epoch
\* `from`: the first epoch of from..cur above lastHandledEpoch is read next;
\* without one the sweep returns false and tryExecute may be called.
SweepGoesOn(t, from, cur) ==
  LET c == {e \in from..cur : e > lastHandledEpoch}
  IN  IF c # {}
        THEN pc'[t] = "rsRound" /\ loc'[t].rec /\ loc'[t].e = Min(c)
        ELSE ~loc'[t].rec /\ pc'[t] \in {"round", "idle"}

\* C34: in the cooldown variant recoverStuckRounds runs before the scan,
\* over max(currentEpoch - 5, 1) .. currentEpoch in ascending order,
\* skipping epochs <= lastHandledEpoch; a confirmed submission ends the tick
\* with no call of tryExecute; a failed one goes on with the next epoch.
C34_SweepBeforeScan ==
  [][\A t \in Ticks :
       variant = "cooldown" /\ Moves(t) =>
         LET l == loc[t]
             c == Round(l.e).closeTimestamp
             hit == c > 0 /\ l.tnow >= c /\ l.tnow <= c + BUFFER_SECONDS
         IN  /\ pc[t] = "epoch" /\ ~TickCatch(t) =>
                  SweepGoesOn(t, IF currentEpoch - 5 > 1 THEN currentEpoch - 5 ELSE 1,
                              currentEpoch)
             /\ pc[t] = "rsRound" /\ ~TickCatch(t) =>
                  IF hit
                    THEN /\ Submits(t, "executeRound")
                         /\ loc'[t].rec /\ loc'[t].e = l.e
                    ELSE SweepGoesOn(t, l.e + 1, l.cur)
             /\ pc[t] = "send" /\ l.rec =>
                  IF chain' # chain
                    THEN pc'[t] = "idle" /\ lastHandledEpoch' = l.e
                    ELSE \/ pc'[t] = "send" /\ loc'[t].att = l.att + 1
                         \/ /\ SweepGoesOn(t, l.e + 1, l.cur)
                            /\ lastHandledEpoch' = lastHandledEpoch
             /\ pc'[t] = "round" => ~l.rec \/ pc[t] \in {"rsRound", "send"}]_vars

\* C34's case: the sweep reads a later epoch after its submission for an
\* earlier epoch, not handled since, was made.
C34_Witness ==
  \E t \in Ticks :
    /\ variant = "cooldown"
    /\ pc[t] = "rsRound"
    /\ loc[t].rec
    /\ \E e \in Epochs :
         /\ e < loc[t].e
         /\ e > lastHandledEpoch
         /\ lastAttemptedEpochs[e] > 0
         /\ lastAttemptedEpochs[e] = loc[t].tnow

\* C35: in the no-mark variant lastHandledEpoch changes only in the step in
\* which an invocation's sendTx(executeRound) returns the confirmed receipt,
\* and then to that invocation's epoch; evaluating a missed or oracle-less
\* round leaves it unchanged; it is 0 or an executed epoch.
C35_HandledOnlyOnReceipt ==
  [][variant = "noMark" =>
       /\ lastHandledEpoch' # lastHandledEpoch =>
            \E t \in Ticks :
              /\ pc[t] = "send"
              /\ loc[t].kind = "executeRound"
              /\ Moves(t)
              /\ currentEpoch' = currentEpoch + 1
              /\ lastHandledEpoch' = loc[t].e
       /\ \A t \in Ticks :
            Evaluates(t) \/ (pc[t] = "send" /\ chain' = chain) =>
              lastHandledEpoch' = lastHandledEpoch
       /\ \/ lastHandledEpoch = 0
          \/ lastHandledEpoch \in Epochs /\ lastHandledEpoch < currentEpoch]_vars

\* C35's case: an invocation is about to evaluate a round whose window has
\* passed and whose epoch is above lastHandledEpoch.
C35_Witness ==
  /\ variant = "noMark"
  /\ \E t \in Ticks :
       /\ pc[t] = "round"
       /\ loc[t].e \in Epochs
       /\ loc[t].e > lastHandledEpoch
       /\ rounds[loc[t].e].lockTimestamp > 0
       /\ now > rounds[loc[t].e].lockTimestamp + BUFFER_SECONDS

\* C36: in the lock/execute variant an invocation submits at most one of
\* lockRound and executeRound, decided on the round it read: lockRound
\* exactly when the lock window is open, executeRound exactly when it is
\* not and closeTimestamp > 0 with the execute window open.
C36_LockBeforeExecute ==
  [][\A t \in Ticks :
       variant = "lockExecute" =>
         LET r == Round(loc[t].e)
             lockOpen == /\ r.lockTimestamp > 0
                         /\ now >= r.lockTimestamp + SAFE_DELAY
                         /\ now <= r.lockTimestamp + BUFFER_SECONDS
             execOpen == /\ r.closeTimestamp > 0
                         /\ now >= r.closeTimestamp + SAFE_DELAY
                         /\ now <= r.closeTimestamp + BUFFER_SECONDS
         IN  /\ Evaluates(t) =>
                  /\ Submits(t, "lockRound") <=> lockOpen
                  /\ Submits(t, "executeRound") <=> execOpen /\ ~lockOpen
             /\ Submits(t, "lockRound") \/ Submits(t, "executeRound") =>
                  pc[t] = "round"
             /\ pc[t] = "send" /\ loc[t].kind \in {"lockRound", "executeRound"} =>
                  pc'[t] \in {"send", "idle"} /\ loc'[t].kind \in {loc[t].kind, "none"}]_vars

\* C36's case: an invocation is inside sendTx(lockRound) while both windows
\* of its round are open.
C36_Witness ==
  \E t \in Ticks :
    /\ variant = "lockExecute"
    /\ pc[t] = "send"
    /\ loc[t].kind = "lockRound"
    /\ loc[t].e \in Epochs
    /\ now = rounds[loc[t].e].closeTimestamp + SAFE_DELAY
    /\ now <= rounds[loc[t].e].lockTimestamp + BUFFER_SECONDS

\* C37, as stated: in the recovery variant a tick evaluates epochs in the
\* order currentEpoch, currentEpoch + 1, currentEpoch - 1, ...,
\* currentEpoch - 5, and once the tick has recorded an epoch e as handled it
\* evaluates no epoch <= e afterwards.
C37_Original ==
  [][\A t \in Ticks :
       variant = "recovery" =>
         /\ Evaluates(t) => loc[t].e > loc[t].marked
         /\ pc'[t] = "round" /\ Moves(t) =>
              LET cur == loc'[t].cur
                  order == <<cur, cur + 1, cur - 1, cur - 2, cur - 3, cur - 4, cur - 5>>
              IN  /\ loc'[t].i \in 1..7
                  /\ loc'[t].i > loc[t].i
                  /\ loc'[t].e = order[loc'[t].i]]_vars

====
